---- MODULE Spec2Model ----
(***************************************************************************)
(* A model of two leaves of the Bevy repository:                           *)
(*                                                                         *)
(*  - examples/ecs/component_hooks.rs: the component lifecycle hooks of    *)
(*    MyComponent (on_add, on_insert, on_remove), the MyComponentIndex     *)
(*    resource they maintain, and the trigger_hooks system that spawns and *)
(*    removes components from keyboard input (specification Spec);         *)
(*                                                                         *)
(*  - bevy_reflect_derive/src/registration.rs: the GetTypeRegistration     *)
(*    impl that impl_get_type_registration generates, and the registration *)
(*    its get_type_registration builds (specification SpecReg).            *)
(*                                                                         *)
(* The host engine (entity store, command queues, ButtonInput, the type    *)
(* registration record) is not part of the modelled files; the operators   *)
(* that stand for it are marked as such where they are defined.            *)
(***************************************************************************)
EXTENDS Integers, Sequences, FiniteSets, TLC

\* ------------------------------------------------------------------ bounds

\* Entity ids the world may allocate in one run (spawns stop being offered
\* once they are used up).
MaxEntities == 3

\* Keyboard events delivered between two runs of trigger_hooks.
MaxEventsPerFrame == 2

\* Length of the identifier list meta.attrs().idents().
MaxIdents == 2

\* The KeyCode values the keyboard produces.
Keys == {"KeyA", "KeyB"}

\* Option::None for an Option<KeyCode>, and the absent Entity of a map lookup.
None == "None"
NoEntity == 0

Entities == 1..MaxEntities

HookNames == {"on_add", "on_insert", "on_remove"}

VARIABLES
    pc,         \* position in the schedule: startup, frame, input, apply
    world,      \* the World: entities, MyComponent storage, resources, hooks
    keys,       \* Res<ButtonInput<KeyCode>>: pressed and just_pressed
    commands,   \* the Commands queue of trigger_hooks, applied after it
    nevents,    \* keyboard events delivered in the current frame
    snap,       \* what the last run of trigger_hooks saw and issued
    lastCmd,    \* the command applied last
    rpc,        \* registration: position in generate / run
    meta,       \* registration: the ReflectMeta inputs
    serialization_data, \* registration: Option<&SerializationDataDef>
    tokens,     \* registration: the generated statements of get_type_registration
    registration \* registration: the TypeRegistration being built

vars == <<pc, world, keys, commands, nevents, snap, lastCmd,
          rpc, meta, serialization_data, tokens, registration>>

hookVars == <<pc, world, keys, commands, nevents, snap, lastCmd>>
regVars == <<rpc, meta, serialization_data, tokens, registration>>

\* ------------------------------------------------------- helper operators

\* Every order in which a hash-based collection may hand out the elements of S.
Orders(S) ==
    {s \in [1..Cardinality(S) -> S] : \A i, j \in 1..Cardinality(S) : i # j => s[i] # s[j]}

\* HashMap::insert and HashMap::remove on MyComponentIndex.
IndexInsert(index, key, entity) == [index EXCEPT ![key] = entity]
IndexRemove(index, key) == [index EXCEPT ![key] = NoEntity]

\* A panic aborts the program: the first one is kept.
Panic(w, what) == IF w.panic = "none" THEN [w EXCEPT !.panic = what] ELSE w

\* world.get::<MyComponent>(entity): Some(value) only for a live entity that
\* holds the component.
WorldGet(w, entity) ==
    IF entity \in w.entities THEN w.comp[entity] ELSE None

\* ------------------------------------------- component_hooks.rs: the hooks

\* on_add without the index update.
on_add_no_index(w, entity) ==
    LET value == WorldGet(w, entity) IN
    IF value = None THEN Panic(w, "on_add unwrap")
    ELSE [w EXCEPT
            !.log = Append(@, [hook |-> "on_add", entity |-> entity,
                               value |-> value, index |-> w.index]),
            !.runs["on_add"][entity] = @ + 1,
            !.events = @ + 1]

\* on_add that sends no MyEvent.
on_add_no_event(w, entity) ==
    LET value == WorldGet(w, entity) IN
    IF value = None THEN Panic(w, "on_add unwrap")
    ELSE [w EXCEPT
            !.log = Append(@, [hook |-> "on_add", entity |-> entity,
                               value |-> value, index |-> w.index]),
            !.runs["on_add"][entity] = @ + 1,
            !.index = IndexInsert(@, value, entity)]

\* The on_add closure: read the component, print, index it, send MyEvent.
on_add(w, entity) ==
    LET value == WorldGet(w, entity) IN
    IF value = None THEN Panic(w, "on_add unwrap")
    ELSE [w EXCEPT
            !.log = Append(@, [hook |-> "on_add", entity |-> entity,
                               value |-> value, index |-> w.index]),
            !.runs["on_add"][entity] = @ + 1,
            !.index = IndexInsert(@, value, entity),
            !.events = @ + 1]

\* The on_insert closure: print the index. (The closure ignores its entity;
\* the log keeps it to tell the calls apart.)
on_insert(w, entity) ==
    [w EXCEPT
        !.log = Append(@, [hook |-> "on_insert", entity |-> entity,
                           value |-> None, index |-> w.index]),
        !.runs["on_insert"][entity] = @ + 1]

\* on_remove that leaves the index entry in place.
on_remove_keeps_entry(w, entity) ==
    LET value == WorldGet(w, entity) IN
    IF value = None THEN Panic(w, "on_remove unwrap")
    ELSE [w EXCEPT
            !.log = Append(@, [hook |-> "on_remove", entity |-> entity,
                               value |-> value, index |-> w.index]),
            !.runs["on_remove"][entity] = @ + 1,
            !.queue = Append(@, [op |-> "despawn", entity |-> entity, key |-> None])]

\* The on_remove closure: read the component, print, drop the index entry,
\* queue the despawn of the entity.
on_remove(w, entity) ==
    LET value == WorldGet(w, entity) IN
    IF value = None THEN Panic(w, "on_remove unwrap")
    ELSE [w EXCEPT
            !.log = Append(@, [hook |-> "on_remove", entity |-> entity,
                               value |-> value, index |-> w.index]),
            !.runs["on_remove"][entity] = @ + 1,
            !.index = IndexRemove(@, value),
            !.queue = Append(@, [op |-> "despawn", entity |-> entity, key |-> None])]

\* MyComponent::init_component_info registering an on_add hook of its own.
init_component_info_registers(hooks) == [hooks EXCEPT !["on_add"] = TRUE]

\* MyComponent::init_component_info: registers nothing.
init_component_info(hooks) == hooks

\* --------------------------------------------------- the host entity store
\* (bevy_ecs World; not part of the modelled files)

\* Run the hook registered in slot `name`, if any, for `entity`.
RunHook(w, name, entity) ==
    IF w.panic # "none" \/ ~w.hooks[name] THEN w
    ELSE CASE name = "on_add" -> on_add(w, entity)
           [] name = "on_insert" -> on_insert(w, entity)
           [] name = "on_remove" -> on_remove(w, entity)

\* EntityWorldMut::insert(MyComponent(key)): write the component, then on_add
\* if the entity did not hold it, then on_insert.
EntityInsert(w, entity, key) ==
    LET had == w.comp[entity] # None
        w1 == [w EXCEPT !.comp[entity] = key, !.archetype = TRUE]
        w2 == IF had THEN w1 ELSE RunHook(w1, "on_add", entity)
    IN RunHook(w2, "on_insert", entity)

\* The spawn command: the reserved entity comes alive and gets the bundle.
WorldSpawn(w, entity, key) ==
    EntityInsert([w EXCEPT !.entities = @ \cup {entity}], entity, key)

\* A remove that takes the component away before it runs on_remove.
EntityRemove_then_hook(w, entity) ==
    IF entity \notin w.entities \/ w.comp[entity] = None THEN w
    ELSE RunHook([w EXCEPT !.comp[entity] = None], "on_remove", entity)

\* The remove::<MyComponent> command: nothing for a missing entity or one
\* without the component; otherwise on_remove, then the component goes.
EntityRemove(w, entity) ==
    IF entity \notin w.entities \/ w.comp[entity] = None THEN w
    ELSE LET w1 == RunHook(w, "on_remove", entity) IN
         IF w1.panic # "none" THEN w1
         ELSE [w1 EXCEPT !.comp[entity] = None]

\* The despawn command: a warning for a missing entity; otherwise on_remove
\* for a component still held, then the entity goes.
WorldDespawn(w, entity) ==
    IF entity \notin w.entities THEN w
    ELSE LET w1 == IF w.comp[entity] = None THEN w
                   ELSE RunHook(w, "on_remove", entity) IN
         IF w1.panic # "none" THEN w1
         ELSE [w1 EXCEPT !.comp[entity] = None, !.entities = @ \ {entity}]

\* Command::apply for the three commands the program issues.
ApplyOne(w, cmd) ==
    CASE cmd.op = "spawn" -> WorldSpawn(w, cmd.entity, cmd.key)
      [] cmd.op = "remove" -> EntityRemove(w, cmd.entity)
      [] cmd.op = "despawn" -> WorldDespawn(w, cmd.entity)

\* ButtonInput::press, ButtonInput::release, ButtonInput::clear.
ButtonPress(k, key) ==
    IF key \in k.pressed THEN k
    ELSE [pressed |-> k.pressed \cup {key}, just_pressed |-> k.just_pressed \cup {key}]
ButtonRelease(k, key) == [k EXCEPT !.pressed = @ \ {key}]
ButtonClear(k) == [k EXCEPT !.just_pressed = {}]

\* ------------------------------------------ component_hooks.rs: the systems

NoHooks == [h \in HookNames |-> FALSE]

\* One call of the hook builder (.on_add, .on_insert, .on_remove): a slot that
\* is already taken panics.
RegisterHook(w, name) ==
    IF w.panic # "none" THEN w
    ELSE IF w.hooks[name] THEN Panic(w, "hook already registered")
    ELSE [w EXCEPT !.hooks[name] = TRUE]

\* world.register_component_hooks::<MyComponent>(): initialise the component,
\* refuse when an archetype already holds it.
RegisterComponentHooks(w) ==
    LET w1 == [w EXCEPT !.hooks = init_component_info(@)] IN
    IF w1.archetype THEN Panic(w1, "component already in an archetype") ELSE w1

\* setup with the on_add registration left out.
setup_without_on_add(w) ==
    RegisterHook(RegisterHook(RegisterComponentHooks(w), "on_insert"), "on_remove")

\* setup: register on_add, on_insert and on_remove, in that order.
setup(w) ==
    RegisterHook(RegisterHook(RegisterHook(RegisterComponentHooks(w),
        "on_add"), "on_insert"), "on_remove")

\* The commands of the two loops: a remove for each of `removed`, then a
\* spawn for each of `pressOrder`, each spawn reserving the next entity id.
IssuedCommands(w, removed, pressOrder) ==
    [i \in 1..Len(removed) |->
        [op |-> "remove", entity |-> w.index[removed[i]], key |-> None]]
    \o [i \in 1..Len(pressOrder) |->
        [op |-> "spawn", entity |-> w.next + i - 1, key |-> pressOrder[i]]]

\* trigger_hooks that despawns the indexed entity instead of removing its
\* component.
trigger_hooks_despawns(w, k, indexOrder, pressOrder) ==
    LET cmds == IssuedCommands(w, SelectSeq(indexOrder, LAMBDA key : key \notin k.pressed),
                               pressOrder)
    IN [i \in 1..Len(cmds) |->
          IF cmds[i].op = "remove" THEN [cmds[i] EXCEPT !.op = "despawn"] ELSE cmds[i]]

\* trigger_hooks with the negation of its filter lost: it removes the
\* components whose key is pressed.
trigger_hooks_removes_pressed(w, k, indexOrder, pressOrder) ==
    IssuedCommands(w, SelectSeq(indexOrder, LAMBDA key : key \in k.pressed), pressOrder)

\* trigger_hooks: the commands it issues. It walks the index in the map's
\* iteration order and removes MyComponent from the entity of every key that
\* is not pressed, then walks the just pressed keys in the set's iteration
\* order and spawns an entity with MyComponent for each.
trigger_hooks(w, k, indexOrder, pressOrder) ==
    IssuedCommands(w, SelectSeq(indexOrder, LAMBDA key : key \notin k.pressed), pressOrder)

\* --------------------------------------- registration.rs: the generated impl

\* The type-data identifiers a #[reflect(...)] attribute may list. The list
\* may name the types the generated function inserts by itself.
IdentNames == {"ReflectDefault", "ReflectSerialize", "ReflectFromReflect", "ReflectFromPtr"}

\* Every type-data type a registration of the model may hold.
TypeDataNames == IdentNames \cup {"SerializationData"}

\* The lists meta.attrs().idents() may return: no identifier twice.
IdentLists ==
    UNION {{s \in [1..n -> IdentNames] : \A i, j \in 1..n : i # j => s[i] # s[j]}
           : n \in 0..MaxIdents}

\* One generated statement registration.insert::<type>(value).
InsertStmt(type, value) == [op |-> "insert", type |-> type, value |-> value]

\* data.as_serialization_data(bevy_reflect_path): the expression that builds
\* the SerializationData value from the definition.
as_serialization_data(data) == "SerializationData::new(" \o data \o ")"

\* impl_get_type_registration that emits the ReflectFromReflect insert whether
\* or not FromReflect is auto-derived.
impl_get_type_registration_always_from_reflect(m, ser) ==
    <<[op |-> "of", type |-> "Self", value |-> None]>>
    \o <<InsertStmt("ReflectFromPtr", "FromType")>>
    \o <<InsertStmt("ReflectFromReflect", "FromType")>>
    \o (IF ser # None
        THEN <<InsertStmt("SerializationData", as_serialization_data(ser))>>
        ELSE <<>>)
    \o [i \in 1..Len(m.idents) |-> InsertStmt(m.idents[i], "FromType")]
    \o <<[op |-> "return", type |-> "Self", value |-> None]>>

\* impl_get_type_registration that emits the inserts of the listed
\* identifiers ahead of its own.
impl_get_type_registration_idents_first(m, ser) ==
    <<[op |-> "of", type |-> "Self", value |-> None]>>
    \o [i \in 1..Len(m.idents) |-> InsertStmt(m.idents[i], "FromType")]
    \o <<InsertStmt("ReflectFromPtr", "FromType")>>
    \o (IF m.should_auto_derive
        THEN <<InsertStmt("ReflectFromReflect", "FromType")>>
        ELSE <<>>)
    \o (IF ser # None
        THEN <<InsertStmt("SerializationData", as_serialization_data(ser))>>
        ELSE <<>>)
    \o <<[op |-> "return", type |-> "Self", value |-> None]>>

\* impl_get_type_registration: the body of the generated
\* get_type_registration, statement by statement. The impl header (generics,
\* where clause) does not reach the body and is left out.
impl_get_type_registration(m, ser) ==
    LET from_reflect_data ==
            IF m.should_auto_derive
            THEN <<InsertStmt("ReflectFromReflect", "FromType")>>
            ELSE <<>>
        ser_data ==
            IF ser # None
            THEN <<InsertStmt("SerializationData", as_serialization_data(ser))>>
            ELSE <<>>
    IN <<[op |-> "of", type |-> "Self", value |-> None]>>
       \o <<InsertStmt("ReflectFromPtr", "FromType")>>
       \o from_reflect_data
       \o ser_data
       \o [i \in 1..Len(m.idents) |-> InsertStmt(m.idents[i], "FromType")]
       \o <<[op |-> "return", type |-> "Self", value |-> None]>>

\* (bevy_reflect TypeRegistration; not part of the modelled files)
NoData == [present |-> FALSE, value |-> None, stmt |-> 0]

\* TypeRegistration::of::<Self>(): a registration without type data.
TypeRegistrationOf == [t \in TypeDataNames |-> NoData]

\* TypeRegistration::insert::<T>(value): the entry of T is set, replacing one
\* that is there; stmt remembers the statement that wrote it.
RegistrationInsert(data, type, value, stmt) ==
    [data EXCEPT ![type] = [present |-> TRUE, value |-> value, stmt |-> stmt]]


\* ------------------------------------------------------------------- state

NoCmd == [op |-> "none", entity |-> NoEntity, key |-> None]

NoSnap == [ran |-> FALSE, index |-> [key \in Keys |-> NoEntity], pressed |-> {},
           just_pressed |-> {}, entities |-> {}, next |-> 1]

InitWorld ==
    [entities |-> {},
     next |-> 1,
     comp |-> [e \in Entities |-> None],
     index |-> [key \in Keys |-> NoEntity],
     events |-> 0,
     queue |-> <<>>,
     hooks |-> NoHooks,
     archetype |-> FALSE,
     panic |-> "none",
     log |-> <<>>,
     runs |-> [h \in HookNames |-> [e \in Entities |-> 0]]]

InitHooks ==
    /\ pc = "startup"
    /\ world = InitWorld
    /\ keys = [pressed |-> {}, just_pressed |-> {}]
    /\ commands = <<>>
    /\ nevents = 0
    /\ snap = NoSnap
    /\ lastCmd = NoCmd

InitRegIdle ==
    /\ rpc = "idle"
    /\ meta = [should_auto_derive |-> FALSE, idents |-> <<>>]
    /\ serialization_data = None
    /\ tokens = <<>>
    /\ registration = [ip |-> 0, data |-> TypeRegistrationOf]

Init == InitHooks /\ InitRegIdle

\* ----------------------------------------------------------------- actions

Running == world.panic = "none"

\* The Startup schedule: setup runs once, before the first Update.
Setup ==
    /\ pc = "startup" /\ Running
    /\ world' = setup(world)
    /\ pc' = "frame"
    /\ UNCHANGED <<keys, commands, nevents, snap, lastCmd>>
    /\ UNCHANGED regVars

\* keyboard_input_system starts a frame by clearing just_pressed.
BeginFrame ==
    /\ pc = "frame" /\ Running
    /\ keys' = ButtonClear(keys)
    /\ nevents' = 0
    /\ pc' = "input"
    /\ UNCHANGED <<world, commands, snap, lastCmd>>
    /\ UNCHANGED regVars

\* A key-down event. A press that adds a just pressed key is offered only
\* while an entity id is left for the spawn it leads to.
Press(key) ==
    /\ pc = "input" /\ Running
    /\ nevents < MaxEventsPerFrame
    /\ key \notin keys.pressed =>
          world.next + Cardinality(keys.just_pressed \cup {key}) - 1 <= MaxEntities
    /\ keys' = ButtonPress(keys, key)
    /\ nevents' = nevents + 1
    /\ UNCHANGED <<pc, world, commands, snap, lastCmd>>
    /\ UNCHANGED regVars

\* A key-up event.
Release(key) ==
    /\ pc = "input" /\ Running
    /\ nevents < MaxEventsPerFrame
    /\ keys' = ButtonRelease(keys, key)
    /\ nevents' = nevents + 1
    /\ UNCHANGED <<pc, world, commands, snap, lastCmd>>
    /\ UNCHANGED regVars

\* Every command of cmds applied to w, in order.
RECURSIVE ApplyAll(_, _)
ApplyAll(w, cmds) ==
    IF cmds = <<>> \/ w.panic # "none" THEN w
    ELSE ApplyAll(ApplyOne(w, Head(cmds)), Tail(cmds))

\* trigger_hooks acting on the world itself instead of through Commands: each
\* remove and spawn takes effect, hooks included, inside the system.
TriggerHooks_immediate ==
    /\ pc = "input" /\ Running
    /\ \E indexOrder \in Orders({key \in Keys : world.index[key] # NoEntity}),
          pressOrder \in Orders(keys.just_pressed) :
          LET cmds == trigger_hooks(world, keys, indexOrder, pressOrder)
              spawns == Cardinality({i \in 1..Len(cmds) : cmds[i].op = "spawn"})
          IN world' = ApplyAll([world EXCEPT !.next = @ + spawns, !.log = <<>>], cmds)
    /\ commands' = <<>>
    /\ snap' = [ran |-> TRUE, index |-> world.index, pressed |-> keys.pressed,
                just_pressed |-> keys.just_pressed, entities |-> world.entities,
                next |-> world.next]
    /\ pc' = "apply"
    /\ UNCHANGED <<keys, nevents, lastCmd>>
    /\ UNCHANGED regVars

\* The Update schedule runs trigger_hooks. Commands::entity panics for an
\* entity that does not exist.
TriggerHooks ==
    /\ pc = "input" /\ Running
    /\ \E indexOrder \in Orders({key \in Keys : world.index[key] # NoEntity}),
          pressOrder \in Orders(keys.just_pressed) :
          LET cmds == trigger_hooks(world, keys, indexOrder, pressOrder)
              spawns == Cardinality({i \in 1..Len(cmds) : cmds[i].op = "spawn"})
              missing == \E i \in 1..Len(cmds) :
                            /\ cmds[i].op # "spawn"
                            /\ cmds[i].entity \notin world.entities
          IN /\ world' = IF missing THEN Panic(world, "commands.entity")
                         ELSE [world EXCEPT !.next = @ + spawns]
             /\ commands' = IF missing THEN <<>> ELSE cmds
    /\ snap' = [ran |-> TRUE, index |-> world.index, pressed |-> keys.pressed,
                just_pressed |-> keys.just_pressed, entities |-> world.entities,
                next |-> world.next]
    /\ pc' = "apply"
    /\ UNCHANGED <<keys, nevents, lastCmd>>
    /\ UNCHANGED regVars

\* Apply one command: the commands queued by a hook are flushed right after
\* the command that ran the hook, before the next command of the system.
ApplyCommand ==
    /\ pc = "apply" /\ Running
    /\ Len(world.queue) + Len(commands) > 0
    /\ LET fromWorld == Len(world.queue) > 0
           cmd == IF fromWorld THEN Head(world.queue) ELSE Head(commands)
           w0 == [world EXCEPT !.queue = IF fromWorld THEN Tail(@) ELSE @,
                               !.log = <<>>]
       IN /\ world' = ApplyOne(w0, cmd)
          /\ commands' = IF fromWorld THEN commands ELSE Tail(commands)
          /\ lastCmd' = [cmd EXCEPT !.key = IF cmd.op = "spawn" THEN cmd.key
                                            ELSE world.comp[cmd.entity]]
    /\ UNCHANGED <<pc, keys, nevents, snap>>
    /\ UNCHANGED regVars

\* All commands are applied: the frame is over.
EndFrame ==
    /\ pc = "apply" /\ Running
    /\ Len(world.queue) + Len(commands) = 0
    /\ pc' = "frame"
    /\ UNCHANGED <<world, keys, commands, nevents, snap, lastCmd>>
    /\ UNCHANGED regVars

Next ==
    \/ Setup
    \/ BeginFrame
    \/ \E key \in Keys : Press(key)
    \/ \E key \in Keys : Release(key)
    \/ TriggerHooks
    \/ ApplyCommand
    \/ EndFrame

Spec == Init /\ [][Next]_vars

\* ------------------------------------------- registration: state and actions

InitReg ==
    /\ InitHooks
    /\ rpc = "derive"
    /\ meta \in [should_auto_derive : BOOLEAN, idents : IdentLists]
    /\ serialization_data \in {None, "SerializationDataDef"}
    /\ tokens = <<>>
    /\ registration = [ip |-> 0, data |-> TypeRegistrationOf]

\* The derive macro expands: impl_get_type_registration produces the impl.
Derive ==
    /\ rpc = "derive"
    /\ tokens' = impl_get_type_registration(meta, serialization_data)
    /\ rpc' = "generated"
    /\ UNCHANGED <<meta, serialization_data, registration>>
    /\ UNCHANGED hookVars

\* get_type_registration() is called: it takes no argument and starts at the
\* first statement of the generated body.
Call ==
    /\ rpc = "generated"
    /\ registration' = [ip |-> 1, data |-> TypeRegistrationOf]
    /\ rpc' = "running"
    /\ UNCHANGED <<meta, serialization_data, tokens>>
    /\ UNCHANGED hookVars

\* One statement of the generated body runs.
Step ==
    /\ rpc = "running"
    /\ registration.ip <= Len(tokens)
    /\ LET stmt == tokens[registration.ip] IN
          /\ registration' =
                [ip |-> registration.ip + 1,
                 data |-> CASE stmt.op = "of" -> TypeRegistrationOf
                            [] stmt.op = "insert" ->
                                 RegistrationInsert(registration.data, stmt.type,
                                                    stmt.value, registration.ip)
                            [] stmt.op = "return" -> registration.data]
          /\ rpc' = IF stmt.op = "return" THEN "returned" ELSE "running"
    /\ UNCHANGED <<meta, serialization_data, tokens>>
    /\ UNCHANGED hookVars

NextReg ==
    \/ Derive
    \/ Call
    \/ Step

SpecReg == InitReg /\ [][NextReg]_vars

\* ------------------------------------------------ properties: the hooks

\* The entities whose spawn command has been applied.
Spawned(e) ==
    /\ e < world.next
    /\ \A i \in 1..Len(commands) : ~(commands[i].op = "spawn" /\ commands[i].entity = e)

\* The hooks that ran during the command applied last, in order.
HooksRun == [i \in 1..Len(world.log) |-> world.log[i].hook]

\* C1: on_add runs when and only when MyComponent is inserted onto an entity
\* that did not hold it: a step runs on_add for an entity exactly when the
\* entity goes from holding no MyComponent to holding one, and it then runs
\* once; so every entity spawned by trigger_hooks has had exactly one on_add
\* and an entity not yet spawned none.
C1_OnAddOncePerSpawn ==
    /\ [](\A e \in Entities :
            world.runs["on_add"][e] = IF Spawned(e) THEN 1 ELSE 0)
    /\ [][\A e \in Entities :
            /\ (world.comp[e] = None /\ world'.comp[e] # None)
                  <=> world'.runs["on_add"][e] = world.runs["on_add"][e] + 1
            /\ world'.runs["on_add"][e] \in
                  {world.runs["on_add"][e], world.runs["on_add"][e] + 1}]_vars

C1_Witness ==
    /\ lastCmd.op = "spawn"
    /\ world.comp[lastCmd.entity] = lastCmd.key
    /\ world.runs["on_add"][lastCmd.entity] = 1

\* C2: on_insert runs on every insertion (once per spawned entity), and in the
\* insertion where on_add ran it runs after on_add: the hooks of a spawn are
\* on_add then on_insert, and the index on_insert prints holds the entry that
\* on_add wrote for the inserted entity.
C2_OnInsertAfterOnAdd ==
    /\ \A e \in Entities :
          world.runs["on_insert"][e] = IF Spawned(e) THEN 1 ELSE 0
    /\ lastCmd.op = "spawn" =>
          /\ HooksRun = <<"on_add", "on_insert">>
          /\ \A i \in 1..Len(world.log) :
                world.log[i].hook = "on_insert" =>
                    /\ world.log[i].entity = lastCmd.entity
                    /\ world.log[i].index[lastCmd.key] = lastCmd.entity

C2_Witness ==
    /\ lastCmd.op = "spawn"
    /\ Len(world.log) = 2
    /\ world.log[2].hook = "on_insert"
    /\ world.log[2].index[lastCmd.key] = lastCmd.entity

\* C3: whenever on_remove runs for an entity, the entity is alive and holds
\* MyComponent: the hook reads the value the entity held before the command,
\* and its unwrap never panics.
C3_OnRemoveSeesComponent ==
    /\ world.panic # "on_remove unwrap"
    /\ \A i \in 1..Len(world.log) :
          world.log[i].hook = "on_remove" =>
              /\ world.log[i].entity = lastCmd.entity
              /\ world.log[i].value \in Keys
              /\ world.log[i].value = lastCmd.key

C3_Witness ==
    /\ lastCmd.op = "remove"
    /\ HooksRun = <<"on_remove">>
    /\ world.log[1].value \in Keys
    /\ world.comp[lastCmd.entity] = None

\* C4: whenever on_add runs for an entity, MyComponent is present with the
\* inserted value: the hook reads the key of the spawn command, its unwrap
\* never panics, and the index entry it writes is that key's.
C4_OnAddSeesComponent ==
    /\ world.panic # "on_add unwrap"
    /\ \A i \in 1..Len(world.log) :
          world.log[i].hook = "on_add" =>
              /\ lastCmd.op = "spawn"
              /\ world.log[i].entity = lastCmd.entity
              /\ world.log[i].value = lastCmd.key
              /\ world.index[lastCmd.key] = lastCmd.entity

C4_Witness ==
    /\ lastCmd.op = "spawn"
    /\ Len(world.log) > 0
    /\ world.log[1].hook = "on_add"
    /\ world.log[1].value = lastCmd.key
    /\ world.index[lastCmd.key] = lastCmd.entity

\* C5: at the registration in setup no archetype holds MyComponent and no
\* hook is registered yet (init_component_info registers none), so setup
\* registers each of the three hooks once without a panic; entities are only
\* spawned after it.
C5_RegistrationPreconditions ==
    /\ world.panic \notin {"hook already registered", "component already in an archetype"}
    /\ pc = "startup" =>
          /\ ~world.archetype
          /\ world.entities = {}
          /\ world.next = 1
    /\ (pc # "startup" /\ world.panic = "none") =>
          \A h \in HookNames : world.hooks[h]

C5_Witness ==
    /\ pc = "apply"
    /\ world.archetype
    /\ \A h \in HookNames : world.hooks[h]
    /\ world.panic = "none"

\* The frame's commands have all been applied and trigger_hooks has not run
\* again.
FrameDone == pc \in {"frame", "input"}

\* C7: once a frame's commands have been applied, every live entity that
\* carries MyComponent(k) is the entity stored under k in MyComponentIndex.
C7_EveryComponentIndexed ==
    FrameDone =>
        \A e \in world.entities :
            world.comp[e] # None => world.index[world.comp[e]] = e

\* C8: once a frame's commands have been applied, every entry (k, e) of
\* MyComponentIndex refers to a live entity e that carries MyComponent(k), so
\* Commands::entity in trigger_hooks never meets a missing entity.
C8_IndexEntriesLive ==
    /\ world.panic # "commands.entity"
    /\ FrameDone =>
          \A key \in Keys :
              world.index[key] # NoEntity =>
                  /\ world.index[key] \in world.entities
                  /\ world.comp[world.index[key]] = key

C8_Witness ==
    /\ pc = "frame"
    /\ \E key \in Keys : world.index[key] # NoEntity
    /\ \E e \in Entities : world.runs["on_remove"][e] = 1 /\ e \notin world.entities

\* C9: on_remove runs at most once per entity: a despawn command finds its
\* entity without MyComponent and runs no hook, and trigger_hooks issues a
\* remove command only for an entity on_remove has not run for, once.
C9_OnRemoveAtMostOnce ==
    /\ \A e \in Entities : world.runs["on_remove"][e] <= 1
    /\ lastCmd.op = "despawn" => (lastCmd.key = None /\ world.log = <<>>)
    /\ \A i \in 1..Len(commands) :
          commands[i].op = "remove" =>
              /\ world.runs["on_remove"][commands[i].entity] = 0
              /\ \A j \in 1..Len(commands) :
                    (commands[j].op = "remove" /\ commands[j].entity = commands[i].entity)
                        => j = i

C9_Witness ==
    /\ lastCmd.op = "despawn"
    /\ lastCmd.entity \notin world.entities
    /\ world.runs["on_remove"][lastCmd.entity] = 1

\* The entities spawned since the last run of trigger_hooks that carry key.
NewWith(key) ==
    {e \in world.entities : e \notin snap.entities /\ e >= snap.next /\ world.comp[e] = key}

\* The entries trigger_hooks saw with their key not pressed.
SeenReleased == {key \in Keys : snap.index[key] # NoEntity /\ key \notin snap.pressed}

\* C10 as stated: for an entry (k, e) that trigger_hooks saw with k not
\* pressed, before the next run on_remove has run for e, k is no longer in
\* MyComponentIndex and e is despawned; and every just pressed key led to
\* exactly one newly spawned entity with MyComponent of that key.
C10_ReleasedKeyLeavesIndex ==
    (FrameDone /\ snap.ran) =>
        /\ \A key \in SeenReleased :
              /\ world.runs["on_remove"][snap.index[key]] = 1
              /\ world.index[key] = NoEntity
              /\ snap.index[key] \notin world.entities
        /\ \A key \in snap.just_pressed : Cardinality(NewWith(key)) = 1

\* C10, amended: for an entry (k, e) that trigger_hooks saw with k not
\* pressed, before the next run on_remove has run for e, e is despawned and
\* the entry (k, e) is gone: k is absent from MyComponentIndex, or, when k was
\* also just pressed in that frame, k maps to the entity newly spawned for it;
\* and every just pressed key led to exactly one newly spawned entity with
\* MyComponent of that key.
C10_ReleasedEntryLeavesIndex ==
    (FrameDone /\ snap.ran) =>
        /\ \A key \in SeenReleased :
              /\ world.runs["on_remove"][snap.index[key]] = 1
              /\ snap.index[key] \notin world.entities
              /\ world.index[key] # snap.index[key]
              /\ IF key \in snap.just_pressed
                 THEN world.index[key] \in NewWith(key)
                 ELSE world.index[key] = NoEntity
        /\ \A key \in snap.just_pressed : Cardinality(NewWith(key)) = 1

C10_Witness ==
    /\ pc = "frame" /\ snap.ran
    /\ \E key \in SeenReleased :
          /\ key \in snap.just_pressed
          /\ world.index[key] \in NewWith(key)
          /\ snap.index[key] \notin world.entities
          /\ world.runs["on_remove"][snap.index[key]] = 1

\* ------------------------------------------- properties: the registration

\* The type data the returned registration holds.
Held == {t \in TypeDataNames : registration.data[t].present}

\* The identifiers meta.attrs().idents() lists.
Listed == {meta.idents[i] : i \in 1..Len(meta.idents)}

\* C6 as stated: the returned registration starts from
\* TypeRegistration::of::<Self>() and holds ReflectFromPtr always,
\* ReflectFromReflect if and only if should_auto_derive() is true,
\* SerializationData if and only if serialization_data is Some, a FromType
\* built entry for every listed identifier, and nothing else.
C6_RegistrationContents ==
    rpc = "returned" =>
        /\ tokens[1].op = "of"
        /\ "ReflectFromPtr" \in Held
        /\ "ReflectFromReflect" \in Held <=> meta.should_auto_derive
        /\ "SerializationData" \in Held <=> serialization_data # None
        /\ \A t \in Listed : t \in Held /\ registration.data[t].value = "FromType"
        /\ Held \subseteq {"ReflectFromPtr", "ReflectFromReflect", "SerializationData"}
                          \cup Listed

\* C6, amended: the returned registration starts from
\* TypeRegistration::of::<Self>() and holds ReflectFromPtr always,
\* ReflectFromReflect if and only if should_auto_derive() is true or the
\* identifier list names ReflectFromReflect, SerializationData if and only if
\* serialization_data is Some, a FromType built entry for every listed
\* identifier, and nothing else.
C6_RegistrationContentsListed ==
    rpc = "returned" =>
        /\ tokens[1].op = "of"
        /\ "ReflectFromPtr" \in Held
        /\ "ReflectFromReflect" \in Held <=>
              (meta.should_auto_derive \/ "ReflectFromReflect" \in Listed)
        /\ "SerializationData" \in Held <=> serialization_data # None
        /\ registration.data["ReflectFromPtr"].value = "FromType"
        /\ "ReflectFromReflect" \in Held =>
              registration.data["ReflectFromReflect"].value = "FromType"
        /\ \A t \in Listed : t \in Held /\ registration.data[t].value = "FromType"
        /\ Held = {"ReflectFromPtr"}
                  \cup (IF meta.should_auto_derive THEN {"ReflectFromReflect"} ELSE {})
                  \cup (IF serialization_data # None THEN {"SerializationData"} ELSE {})
                  \cup Listed

C6_Witness ==
    /\ rpc = "returned"
    /\ ~meta.should_auto_derive
    /\ serialization_data # None
    /\ Len(meta.idents) = 2
    /\ Held = {"ReflectFromPtr", "SerializationData"} \cup Listed
    /\ "ReflectFromReflect" \notin Held

\* --------------------------------------- properties: deferral and effects

\* The index a hook leaves, from the index it saw.
IndexAfter(entry) ==
    CASE entry.hook = "on_add" -> [entry.index EXCEPT ![entry.value] = entry.entity]
      [] entry.hook = "on_insert" -> entry.index
      [] entry.hook = "on_remove" -> [entry.index EXCEPT ![entry.value] = NoEntity]

\* What the observer after the i-th hook of the last command saw: the next
\* hook, or the world once the command is done.
SeenAfter(i) == IF i < Len(world.log) THEN world.log[i + 1].index ELSE world.index

\* C11: hooks are invoked one at a time and never while trigger_hooks runs.
\* The step of trigger_hooks leaves MyComponentIndex, the entities and their
\* components as they are and runs no hook: its removes and spawns are only
\* queued. A hook runs, and the index changes, only in a step that applies
\* one queued command; and each hook's update of the index is complete when
\* the next hook, or the world after the command, sees the index.
C11_HooksDeferredAndSerial ==
    /\ [][/\ (pc = "input" /\ pc' = "apply") =>
                /\ world'.index = world.index
                /\ world'.runs = world.runs
                /\ world'.entities = world.entities
                /\ world'.comp = world.comp
                /\ world'.log = world.log
                /\ world'.panic = "none" =>
                      /\ \A key \in Keys :
                            (world.index[key] # NoEntity /\ key \notin keys.pressed) =>
                                \E i \in 1..Len(commands') :
                                    /\ commands'[i].op = "remove"
                                    /\ commands'[i].entity = world.index[key]
                      /\ \A key \in keys.just_pressed :
                            \E i \in 1..Len(commands') :
                                commands'[i].op = "spawn" /\ commands'[i].key = key
          /\ (world'.runs # world.runs \/ world'.index # world.index) =>
                /\ pc = "apply" /\ pc' = "apply"
                /\ Len(world.queue) + Len(commands) > 0
                /\ lastCmd'.op = (IF Len(world.queue) > 0 THEN Head(world.queue)
                                  ELSE Head(commands)).op
                /\ Len(commands') + 1 >= Len(commands)]_vars
    /\ [](\A i \in 1..Len(world.log) : SeenAfter(i) = IndexAfter(world.log[i]))

C11_Witness ==
    /\ pc = "apply"
    /\ world.index = snap.index
    /\ \E i \in 1..Len(commands) : commands[i].op = "remove"
    /\ \E i \in 1..Len(commands) : commands[i].op = "spawn"
    /\ \E key \in Keys : world.index[key] # NoEntity

\* The calls of hook h so far, over all entities.
RECURSIVE SumRuns(_, _)
SumRuns(runs, S) ==
    IF S = {} THEN 0
    ELSE LET e == CHOOSE x \in S : TRUE IN runs[e] + SumRuns(runs, S \ {e})

Calls(w, h) == SumRuns(w.runs[h], Entities)

\* C12: the MyEvent events sent are as many as the on_add calls, which are as
\* many as the entities spawned by trigger_hooks. A step sends an event only
\* with an on_add call (on_insert and on_remove send none); the index changes
\* only in a step where on_add or on_remove runs, never in the step of
\* trigger_hooks; and on_insert hands on the index it saw.
C12_EventsCountOnAdd ==
    /\ [](/\ world.events = Calls(world, "on_add")
          /\ world.events = Cardinality({e \in Entities : Spawned(e)})
          /\ \A i \in 1..Len(world.log) :
                world.log[i].hook = "on_insert" => SeenAfter(i) = world.log[i].index)
    /\ [][/\ world'.events - world.events
                = Calls(world', "on_add") - Calls(world, "on_add")
          /\ world'.index # world.index =>
                \/ Calls(world', "on_add") > Calls(world, "on_add")
                \/ Calls(world', "on_remove") > Calls(world, "on_remove")
          /\ (pc = "input" /\ pc' = "apply") =>
                (world'.index = world.index /\ world'.events = world.events)]_vars

C12_Witness ==
    /\ world.events = 2
    /\ Calls(world, "on_add") = 2
    /\ Calls(world, "on_insert") = 2
    /\ Calls(world, "on_remove") = 1
    /\ Cardinality({e \in Entities : Spawned(e)}) = 2

\* Statements ahead of the inserts of the listed identifiers: the
\* construction, the ReflectFromPtr insert, and the two optional inserts.
FromReflectAt == IF meta.should_auto_derive THEN 3 ELSE 0
SerializationAt ==
    IF serialization_data = None THEN 0
    ELSE IF meta.should_auto_derive THEN 4 ELSE 3
IdentAt(i) ==
    2 + (IF meta.should_auto_derive THEN 1 ELSE 0)
      + (IF serialization_data = None THEN 0 ELSE 1) + i

\* The statements below ip that insert type t.
InsertsOf(t, ip) ==
    {j \in 1..Len(tokens) : j < ip /\ tokens[j].op = "insert" /\ tokens[j].type = t}

\* C13: the generated get_type_registration inserts in a fixed order:
\* ReflectFromPtr first, then ReflectFromReflect (when auto-derived), then
\* SerializationData (when present), then the listed identifiers in their
\* order, and returns last; the statements run in that order, so the entry of
\* a type is the one its last insert wrote, also when a listed identifier
\* names a type an earlier statement inserted.
C13_InsertOrder ==
    /\ [](rpc \in {"generated", "running", "returned"} =>
            /\ Len(tokens) = IdentAt(Len(meta.idents)) + 1
            /\ tokens[1].op = "of"
            /\ tokens[2] = [op |-> "insert", type |-> "ReflectFromPtr", value |-> "FromType"]
            /\ FromReflectAt # 0 =>
                  (tokens[FromReflectAt].op = "insert"
                      /\ tokens[FromReflectAt].type = "ReflectFromReflect")
            /\ SerializationAt # 0 =>
                  (tokens[SerializationAt].op = "insert"
                      /\ tokens[SerializationAt].type = "SerializationData")
            /\ \A i \in 1..Len(meta.idents) :
                  tokens[IdentAt(i)].op = "insert" /\ tokens[IdentAt(i)].type = meta.idents[i]
            /\ tokens[Len(tokens)].op = "return")
    /\ []((rpc \in {"running", "returned"}) =>
            \A t \in TypeDataNames :
                LET ins == InsertsOf(t, registration.ip) IN
                /\ registration.data[t].present <=> ins # {}
                /\ ins # {} =>
                      /\ registration.data[t].stmt \in ins
                      /\ \A j \in ins : j <= registration.data[t].stmt
                      /\ registration.data[t].value = tokens[registration.data[t].stmt].value)
    /\ [](rpc = "returned" =>
            /\ registration.ip = Len(tokens) + 1
            /\ \A i \in 1..Len(meta.idents) :
                  registration.data[meta.idents[i]].stmt = IdentAt(i))
    /\ [][rpc = "running" => registration'.ip = registration.ip + 1]_vars

C13_Witness ==
    /\ rpc = "returned"
    /\ meta.should_auto_derive
    /\ serialization_data # None
    /\ meta.idents = <<"ReflectFromReflect", "ReflectFromPtr">>
    /\ registration.data["ReflectFromReflect"].stmt = 5
    /\ registration.data["ReflectFromPtr"].stmt = 6

====
